---------------------------- MODULE Spec2Model ----------------------------
(***************************************************************************)
(* The process -> analyze pipeline of problem3: processor/process.py and   *)
(* analyzer/analyze.py, two batch processes that hand work over through    *)
(* files under /shared and synchronise on completion-marker files; and    *)
(* the query retry loop of problem2's arxiv_processor.py, a program of its *)
(* own that shares nothing with the pipeline.                              *)
(*                                                                         *)
(* A text is a sequence of one-character strings.  A ratio that the code   *)
(* computes with "/" is kept exact, as a pair <<numerator, denominator>>;   *)
(* the constant 0 of an "else 0" branch is <<0, 1>>.  Left out of the      *)
(* objects written to the files: the timestamps, and the links and images  *)
(* that strip_html extracts beside the text.                               *)
(***************************************************************************)
EXTENDS Integers, Sequences, FiniteSets, TLC

(***************************************************************************)
(* Characters                                                              *)
(***************************************************************************)
LowerSeq == <<"a","b","c","d","e","f","g","h","i","j","k","l","m",
              "n","o","p","q","r","s","t","u","v","w","x","y","z">>

UpperSeq == <<"A","B","C","D","E","F","G","H","I","J","K","L","M",
              "N","O","P","Q","R","S","T","U","V","W","X","Y","Z">>

DigitChars == {"0","1","2","3","4","5","6","7","8","9"}

Range(s) == { s[k] : k \in DOMAIN s }

\* \w of the regular expressions (ASCII part: letters, digits, underscore)
IsWordChar(c) == c \in Range(LowerSeq) \cup Range(UpperSeq) \cup DigitChars \cup {"_"}

\* \s of the regular expressions, and the characters str.strip() removes
IsSpace(c) == c \in {" ", "\t", "\n", "\r"}

\* [-'] of the tokenizer's pattern
IsJoiner(c) == c \in {"-", "'"}

\* [.!?] of the sentence splitter
IsSentenceEnd(c) == c \in {".", "!", "?"}

\* str.lower() on one character
LowerChar(c) ==
    IF \E k \in DOMAIN UpperSeq : UpperSeq[k] = c
    THEN LowerSeq[CHOOSE k \in DOMAIN UpperSeq : UpperSeq[k] = c]
    ELSE c

\* str.lower()
Lower(w) == [k \in DOMAIN w |-> LowerChar(w[k])]

\* the least element of a set of positions, or 0 when it is empty
First(S) == IF S = {} THEN 0 ELSE CHOOSE p \in S : \A q \in S : p <= q

(***************************************************************************)
(* Tokenizer: re.findall(r"\w+(?:[-']\w+)*", text)                         *)
(***************************************************************************)
\* the end of the maximal run of word characters that starts at p
RECURSIVE WordRunEnd(_, _)
WordRunEnd(s, p) ==
    IF p < Len(s) /\ IsWordChar(s[p + 1]) THEN WordRunEnd(s, p + 1) ELSE p

\* the end of the token whose first \w+ run ends at e: each ([-']\w+) that
\* follows is taken greedily
RECURSIVE TokenEnd(_, _)
TokenEnd(s, e) ==
    IF e + 2 <= Len(s) /\ IsJoiner(s[e + 1]) /\ IsWordChar(s[e + 2])
    THEN TokenEnd(s, WordRunEnd(s, e + 2))
    ELSE e

\* a match of the pattern starts at p: p holds a word character that no
\* earlier match has consumed, as the rest of a \w+ run or after a joiner
\* that follows a word character
TokenStart(s, p) ==
    /\ IsWordChar(s[p])
    /\ p > 1 => ~IsWordChar(s[p - 1])
    /\ p > 2 => ~(IsJoiner(s[p - 1]) /\ IsWordChar(s[p - 2]))

\* the matches in text order: the match that starts at p, for every such p
findall_words(text) ==
    LET NonEmpty(t) == t # <<>>
    IN  SelectSeq([p \in DOMAIN text |->
                      IF TokenStart(text, p)
                      THEN SubSeq(text, p, TokenEnd(text, WordRunEnd(text, p)))
                      ELSE <<>>],
                  NonEmpty)

(***************************************************************************)
(* strip_html (process.py): the text it returns                            *)
(***************************************************************************)
\* pat (lower case) matches s at p, ignoring case
MatchesCI(s, p, pat) ==
    /\ p + Len(pat) - 1 <= Len(s)
    /\ \A k \in DOMAIN pat : LowerChar(s[p + k - 1]) = pat[k]

\* the first '>' of s at or after position a, or 0
FirstGt(s, a) == First({q \in a..Len(s) : s[q] = ">"})

\* re.sub(r'<TAG[^>]*>.*?</TAG>', '', s, flags=DOTALL|IGNORECASE), where
\* open is "<TAG" and close is "</TAG>": at p the pattern matches when open
\* matches there, a '>' follows, and close occurs after that '>'; the lazy
\* .*? stops at the first such occurrence
\* where close starts in the match of the pattern at p, or 0 when the
\* pattern does not match at p
BlockClose(s, p, open, close) ==
    LET g == IF MatchesCI(s, p, open) THEN FirstGt(s, p + Len(open)) ELSE 0
    IN  IF g = 0 THEN 0
        ELSE First({q \in (g + 1)..Len(s) : MatchesCI(s, q, close)})

\* s from p on with every match removed, leftmost match first
RECURSIVE RemoveBlocksFrom(_, _, _, _)
RemoveBlocksFrom(s, p, open, close) ==
    LET m == First({q \in p..Len(s) : BlockClose(s, q, open, close) # 0})
    IN  IF m = 0 THEN SubSeq(s, p, Len(s))
        ELSE SubSeq(s, p, m - 1)
             \o RemoveBlocksFrom(s, BlockClose(s, m, open, close) + Len(close),
                                 open, close)

\* re.sub(r'<[^>]+>', ' ', s): a '<', at least one character other than
\* '>', and the first '>' after them
\* the '>' that ends the match of <[^>]+> at p, or 0 when there is none
TagEnd(s, p) ==
    IF s[p] = "<" /\ p < Len(s) /\ s[p + 1] # ">" THEN FirstGt(s, p + 2) ELSE 0

RECURSIVE RemoveTagsFrom(_, _)
RemoveTagsFrom(s, p) ==
    LET m == First({q \in p..Len(s) : TagEnd(s, q) # 0})
    IN  IF m = 0 THEN SubSeq(s, p, Len(s))
        ELSE SubSeq(s, p, m - 1) \o <<" ">> \o RemoveTagsFrom(s, TagEnd(s, m) + 1)

\* re.sub(r'\s+', ' ', s): every run of white space becomes one space (the
\* first character of the run becomes the space, the others go)
Collapse(s) ==
    LET Kept(c) == c # ""
    IN  SelectSeq([p \in DOMAIN s |->
                      IF ~IsSpace(s[p]) THEN s[p]
                      ELSE IF p > 1 /\ IsSpace(s[p - 1]) THEN "" ELSE " "],
                  Kept)

\* str.strip()
Strip(s) ==
    LET ink == {q \in DOMAIN s : ~IsSpace(s[q])}
    IN  IF ink = {} THEN <<>>
        ELSE SubSeq(s, First(ink), CHOOSE q \in ink : \A k \in ink : k <= q)

strip_html(html_content) ==
    LET noScript == RemoveBlocksFrom(html_content, 1,
                        <<"<","s","c","r","i","p","t">>,
                        <<"<","/","s","c","r","i","p","t",">">>)
        noStyle  == RemoveBlocksFrom(noScript, 1,
                        <<"<","s","t","y","l","e">>,
                        <<"<","/","s","t","y","l","e",">">>)
        text     == RemoveTagsFrom(noStyle, 1)
    IN  Strip(Collapse(text))

(***************************************************************************)
(* Ratios and counting                                                     *)
(***************************************************************************)
Zero == <<0, 1>>

\* a / b; a pair with denominator 0 stands for the ZeroDivisionError that
\* Python raises there
Div(a, b) == <<a, b>>

\* x * y
Mul(x, y) == <<x[1] * y[1], x[2] * y[2]>>

\* the evaluation of x raised ZeroDivisionError
Raised(x) == x[2] = 0

\* two ratios are the same number
RatEq(x, y) == x[1] * y[2] = y[1] * x[2]

\* sum(len(w) for w in words): the number of characters in the words
total_length(ws) == Cardinality(UNION { {k} \X DOMAIN ws[k] : k \in DOMAIN ws })

\* the number of segments of re.split(r"[.!?]", text) that s.strip() leaves
\* non-empty: one for every character that is the first non-blank character
\* of its segment
count_sentences(text) ==
    LET Ink(p) == ~IsSpace(text[p]) /\ ~IsSentenceEnd(text[p])
        SegStart(p) ==
            LET ends == {q \in 1..(p - 1) : IsSentenceEnd(text[q])}
            IN  IF ends = {} THEN 1
                ELSE 1 + CHOOSE q \in ends : \A r \in ends : r <= q
    IN  Cardinality({p \in DOMAIN text :
                        Ink(p) /\ \A q \in SegStart(p)..(p - 1) : ~Ink(q)})

\* the end of one \r?\n that starts at p, or 0
BreakEnd(s, p) ==
    IF p <= Len(s) /\ s[p] = "\n" THEN p
    ELSE IF p < Len(s) /\ s[p] = "\r" /\ s[p + 1] = "\n" THEN p + 1
    ELSE 0

\* the end of the longest run of line breaks that starts at p, and their number
RECURSIVE BreakRun(_, _, _)
BreakRun(s, p, n) ==
    LET e == BreakEnd(s, p)
    IN  IF e = 0 THEN <<p - 1, n>> ELSE BreakRun(s, e + 1, n + 1)

\* the number of segments of re.split(r"(?:\r?\n){2,}", s), from p on, that
\* p.strip() leaves non-empty
RECURSIVE ParagraphsFrom(_, _)
ParagraphsFrom(s, p) ==
    LET m == First({q \in p..Len(s) : BreakRun(s, q, 0)[2] >= 2})
        last == IF m = 0 THEN Len(s) ELSE m - 1
        here == IF \E q \in p..last : ~IsSpace(s[q]) THEN 1 ELSE 0
    IN  IF m = 0 THEN here
        ELSE here + ParagraphsFrom(s, BreakRun(s, m, 0)[1] + 1)

count_paragraphs(text) == ParagraphsFrom(text, 1)

(***************************************************************************)
(* analyze_text (process.py): the statistics of one document               *)
(***************************************************************************)
analyze_text(text) ==
    LET words == findall_words(text)
        word_count == Len(words)
    IN  [ words           |-> word_count,
          sentences       |-> count_sentences(text),
          paragraphs      |-> count_paragraphs(text),
          avg_word_length |-> IF word_count > 0
                              THEN Div(total_length(words), word_count)
                              ELSE Zero ]

(***************************************************************************)
(* jaccard_similarity (analyze.py).  set(x) of a Python str is the set of  *)
(* its characters, set(x) of a list is the set of its elements: both are   *)
(* Range(x) of the sequence handed in.                                     *)
(***************************************************************************)
jaccard_similarity(doc1_words, doc2_words) ==
    LET set1 == Range(doc1_words)
        set2 == Range(doc2_words)
        intersection == set1 \cap set2
        union == set1 \cup set2
    IN  IF union # {} THEN Div(Cardinality(intersection), Cardinality(union))
        ELSE Zero

(***************************************************************************)
(* collections.Counter and Counter.most_common                             *)
(***************************************************************************)
\* the distinct elements of xs in the order of their first occurrence: the
\* key order of Counter(xs)
Keys(xs) ==
    LET IsFirst(e) == e[1]
        firsts == SelectSeq([k \in DOMAIN xs |->
                                <<\A j \in 1..(k - 1) : xs[j] # xs[k], xs[k]>>],
                            IsFirst)
    IN  [k \in DOMAIN firsts |-> firsts[k][2]]

Occurrences(xs, x) == Cardinality({k \in DOMAIN xs : xs[k] = x})

\* Counter(xs) as the sequence of its items <<key, count>>, in key order
Counter(xs) ==
    LET keys == Keys(xs)
    IN  [k \in DOMAIN keys |-> <<keys[k], Occurrences(xs, keys[k])>>]

\* the items with count c, then those with smaller counts: a stable sort of
\* the items by count, largest first
RECURSIVE ByCountFrom(_, _)
ByCountFrom(items, c) ==
    IF c < 1 THEN <<>>
    ELSE LET HasCount(it) == it[2] = c
         IN  SelectSeq(items, HasCount) \o ByCountFrom(items, c - 1)

MaxCount(items) ==
    IF items = <<>> THEN 0
    ELSE CHOOSE c \in {items[k][2] : k \in DOMAIN items} :
            \A k \in DOMAIN items : items[k][2] <= c

\* the first n items in key order, unsorted
most_common_unsorted(items, n) ==
    IF Len(items) <= n THEN items ELSE SubSeq(items, 1, n)

\* Counter.most_common(n) = heapq.nlargest(n, items, key=count), which is
\* sorted(items, key=count, reverse=True)[:n]: stable, so equal counts keep
\* the key order
most_common(items, n) ==
    LET sorted == ByCountFrom(items, MaxCount(items))
    IN  IF Len(sorted) <= n THEN sorted ELSE SubSeq(sorted, 1, n)

(***************************************************************************)
(* Inputs.  A raw document is its markup and how loading it goes: "none"   *)
(* (it loads), "open" (open() raises) or "read" (f.read() raises).         *)
(***************************************************************************)
\* main calls wait_for_complete_file with its defaults, timeout=300 and
\* interval=3 seconds; the pipeline specification counts time in coarser
\* ticks (Timeout, Interval), the gate specification draws both arguments
MaxDocs == 2          \* raw documents in /shared/raw
Timeout == 2          \* wait_for_complete_file's timeout, in clock ticks
Interval == 1         \* wait_for_complete_file's interval, in clock ticks
MaxOversleep == 1     \* time.sleep(interval) may return this much late
BigWords == 101       \* distinct words of the large document
MaxTimeout == 3       \* the gate specification draws timeout from 0..MaxTimeout
MaxInterval == 2      \* and interval from 1..MaxInterval
MaxBodies == 2        \* distinct well-formed feeds the ArXiv API may return
WideDocs == 3         \* documents of a corpus of short documents

Loaded(html) == [html |-> html, fault |-> "none"]

\* the k-th two-letter word
BigWord(k) == <<LowerSeq[(k \div 26) + 1], LowerSeq[(k % 26) + 1]>>

\* BigWords distinct words, each once, and the last of them once more
BigText ==
    [p \in 1..(3 * BigWords + 2) |->
        LET k == IF p > 3 * BigWords THEN BigWords ELSE ((p - 1) \div 3) + 1
        IN  IF (p - 1) % 3 = 2 THEN " " ELSE BigWord(k)[((p - 1) % 3) + 1]]

BigDoc == Loaded(BigText)

SampleDocs ==
    { Loaded(<<"a"," ","b"," ","c">>),
      Loaded(<<"a"," ","b"," ","d">>),
      Loaded(<<"<","p",">","T","h","e"," ","c","a","t",".","<","/","p",">",
               "<","p",">","t","h","e"," ","C","A","T"," ","s","a","t","!",
               "<","/","p",">">>),
      Loaded(<<"<","s","c","r","i","p","t",">","x","<","/","s","c","r","i",
               "p","t",">","<","b",">",".","<","/","b",">">>),
      [html |-> <<"x">>, fault |-> "open"],
      [html |-> <<"x">>, fault |-> "read"] }

SeqsUpTo(S, n) == UNION { [1..m -> S] : m \in 0..n }

\* one-word documents, for corpora of more documents
TinyDocs == { Loaded(<<"a">>), Loaded(<<"b">>) }

WideCorpora == [1..WideDocs -> TinyDocs]

Corpora == SeqsUpTo(SampleDocs, MaxDocs) \cup { <<BigDoc>> } \cup WideCorpora

GateCorpora == SeqsUpTo(SampleDocs, 1)

(***************************************************************************)
(* Files.  disk is what a reader finds at the path: "absent", "empty"      *)
(* (created or truncated by open(path, "w"), nothing flushed yet),         *)
(* "partial" (part of the JSON text flushed) or "complete" (closed).       *)
(* data holds the object that json.dump serialises, once the file is open. *)
(* A file left behind by another writer may also be "unreadable": open()   *)
(* raises on it.                                                           *)
(***************************************************************************)
NoFile == [disk |-> "absent", data |-> <<>>]

\* os.path.exists(path)
Exists(file) == file.disk # "absent"

\* open(path, "w")
OpenedForWrite(obj) == [disk |-> "empty", data |-> <<obj>>]

\* json.dump(obj, f): the text goes through f's buffer, none or part of it
\* reaches the disk before the file is closed
Dumped(file) == { [file EXCEPT !.disk = d] : d \in {"empty", "partial"} }

\* a writer that never closes f: what it buffered stays unwritten
NeverClosed(file) == file

\* leaving the with block flushes and closes f
Closed(file) == [file EXCEPT !.disk = "complete"]

\* a loader that takes whatever the file was meant to hold
LoadsAnything(file) == Exists(file)

\* json.load(f) succeeds on a complete JSON text only
Loadable(file) == file.disk = "complete"

\* f"page_{n}.json" and f"page_{n}.html"
PageJson(n) == <<"page_", n, ".json">>
PageHtml(n) == <<"page_", n, ".html">>

VARIABLES
    raw,                 \* /shared/raw/*.html in sorted order
    timeout, interval,   \* the arguments of wait_for_complete_file
    fetch_complete,      \* /shared/status/fetch_complete.json
    processed,           \* /shared/processed/page_<n>.json, by n
    process_complete,    \* /shared/status/process_complete.json
    final_report,        \* /shared/analysis/final_report.json
    ppc,                 \* where the Process stage is
    pelapsed,            \* time.time() - start in its wait loop
    html_file,           \* the raw document load_html_files is at
    results,             \* process.py's global results list
    i,                   \* main's artifact counter
    apc,                 \* where the Analyze stage is
    aelapsed,            \* time.time() - start in its wait loop
    listing,             \* what glob returned to the Analyze stage
    all_processed_files, \* the artifacts it has loaded
    xpc,                 \* where arxiv_processor.py is
    attempt,             \* its retry loop's variable
    responses,           \* what the ArXiv API answered, request by request
    data,                \* the response body it read last
    root,                \* the feed it parsed
    log                  \* the entries it appended to processing.log

files == <<processed, process_complete, final_report>>
pvars == <<ppc, pelapsed, html_file, results, i>>
avars == <<apc, aelapsed, listing, all_processed_files>>
xvars == <<xpc, attempt, responses, data, root, log>>
pipeline == <<raw, timeout, interval, fetch_complete, files, pvars, avars>>
vars  == <<pipeline, xvars>>

(***************************************************************************)
(* wait_for_complete_file (both stages): one pass of the loop head.        *)
(*   "return": os.path.exists(path) held, the function returns True        *)
(*   "sleep" : time.sleep(interval), then the loop head again              *)
(*   "raise" : the loop condition failed, TimeoutError                     *)
(***************************************************************************)
\* a gate that returns when the time is up instead of raising
wait_returning_on_timeout(file, elapsed) ==
    IF elapsed < timeout
    THEN IF Exists(file) THEN "return" ELSE "sleep"
    ELSE "return"

wait_for_complete_file(file, elapsed) ==
    IF elapsed < timeout
    THEN IF Exists(file) THEN "return" ELSE "sleep"
    ELSE "raise"

\* a loop that takes start anew in every pass: no time ever elapses
SleptWithStartReset(elapsed) == {0}

\* time.time() - start after time.sleep(interval)
Slept(elapsed) == { elapsed + interval + d : d \in 0..MaxOversleep }

(***************************************************************************)
(* The Process stage: process.py main() and the generator load_html_files  *)
(***************************************************************************)
Outcome(k, status) == [file |-> k, status |-> status]

CountStatus(rs, status) == Cardinality({k \in DOMAIN rs : rs[k].status = status})

\* main, lines 109-126: the object written to page_<n>.json
processed_file(n, html_content) ==
    LET text == strip_html(html_content)
        analyze_text_dic == analyze_text(text)
    IN  [ source_file |-> PageHtml(n),
          text        |-> text,
          statistics  |-> [ word_count      |-> analyze_text_dic.words,
                            sentence_count  |-> analyze_text_dic.sentences,
                            paragraph_count |-> analyze_text_dic.paragraphs,
                            avg_word_length |-> analyze_text_dic.avg_word_length ] ]

\* main, lines 136-142: the object written to process_complete.json
status_object(n, rs) ==
    [ html_files |-> n - 1,
      successful |-> CountStatus(rs, "success"),
      failed     |-> CountStatus(rs, "failed"),
      results    |-> rs ]

\* main, line 99: the gate on the fetch marker; on return, line 107 and the
\* first step of the generator
P_Wait ==
    /\ ppc = "wait"
    /\ LET w == wait_for_complete_file(fetch_complete, pelapsed)
       IN  \/ /\ w = "return"
              /\ ppc' = "next_file"
              /\ i' = 1
              /\ html_file' = 1
              /\ UNCHANGED pelapsed
           \/ /\ w = "sleep"
              /\ pelapsed' \in Slept(pelapsed)
              /\ UNCHANGED <<ppc, i, html_file>>
           \/ /\ w = "raise"
              /\ ppc' = "timed_out"
              /\ UNCHANGED <<pelapsed, i, html_file>>
    /\ UNCHANGED <<xvars, raw, timeout, interval, fetch_complete, files, results, avars>>

\* load_html_files, lines 54-60 and 63-69: open(html_file); once it is open
\* the outcome "success" is appended
P_Open ==
    /\ ppc = "next_file"
    /\ html_file <= Len(raw)
    /\ IF raw[html_file].fault = "open"
       THEN /\ results' = Append(results, Outcome(html_file, "failed"))
            /\ html_file' = html_file + 1
            /\ UNCHANGED ppc
       ELSE /\ results' = Append(results, Outcome(html_file, "success"))
            /\ ppc' = "read"
            /\ UNCHANGED html_file
    /\ UNCHANGED <<xvars, raw, timeout, interval, fetch_complete, files, pelapsed, i, avars>>

\* load_html_files, lines 61 and 63-69: f.read(), evaluated before the yield
\* and inside the try
P_Read ==
    /\ ppc = "read"
    /\ IF raw[html_file].fault = "read"
       THEN /\ results' = Append(results, Outcome(html_file, "failed"))
            /\ html_file' = html_file + 1
            /\ ppc' = "next_file"
       ELSE /\ ppc' = "write"
            /\ UNCHANGED <<results, html_file>>
    /\ UNCHANGED <<xvars, raw, timeout, interval, fetch_complete, files, pelapsed, i, avars>>

\* main, lines 109-128: the loop body up to open(page_<i>.json, "w")
P_WriteOpen ==
    /\ ppc = "write"
    /\ LET obj == processed_file(i, raw[html_file].html)
       IN  IF Raised(obj.statistics.avg_word_length)
           THEN /\ ppc' = "crashed"
                /\ UNCHANGED processed
           ELSE /\ ppc' = "dump"
                /\ processed' = [processed EXCEPT ![i] = OpenedForWrite(obj)]
    /\ UNCHANGED <<xvars, raw, timeout, interval, fetch_complete, process_complete,
                   final_report, pelapsed, html_file, results, i, avars>>

\* main, line 129
P_Dump ==
    /\ ppc = "dump"
    /\ \E f \in Dumped(processed[i]) : processed' = [processed EXCEPT ![i] = f]
    /\ ppc' = "close"
    /\ UNCHANGED <<xvars, raw, timeout, interval, fetch_complete, process_complete,
                   final_report, pelapsed, html_file, results, i, avars>>

\* main, lines 128-132: the with block ends, i += 1, the generator resumes
P_Close ==
    /\ ppc = "close"
    /\ processed' = [processed EXCEPT ![i] = Closed(processed[i])]
    /\ i' = i + 1
    /\ html_file' = html_file + 1
    /\ ppc' = "next_file"
    /\ UNCHANGED <<xvars, raw, timeout, interval, fetch_complete, process_complete,
                   final_report, pelapsed, results, avars>>

\* main, lines 136-144: the generator is exhausted; the status object is
\* built and process_complete.json opened for writing
P_StatusOpen ==
    /\ ppc = "next_file"
    /\ html_file > Len(raw)
    /\ process_complete' = OpenedForWrite(status_object(i, results))
    /\ ppc' = "status_dump"
    /\ UNCHANGED <<xvars, raw, timeout, interval, fetch_complete, processed,
                   final_report, pelapsed, html_file, results, i, avars>>

\* main, line 145
P_StatusDump ==
    /\ ppc = "status_dump"
    /\ process_complete' \in Dumped(process_complete)
    /\ ppc' = "status_close"
    /\ UNCHANGED <<xvars, raw, timeout, interval, fetch_complete, processed,
                   final_report, pelapsed, html_file, results, i, avars>>

\* main, lines 144-147
P_StatusClose ==
    /\ ppc = "status_close"
    /\ process_complete' = Closed(process_complete)
    /\ ppc' = "done"
    /\ UNCHANGED <<xvars, raw, timeout, interval, fetch_complete, processed,
                   final_report, pelapsed, html_file, results, i, avars>>

Process ==
    \/ P_Wait \/ P_Open \/ P_Read \/ P_WriteOpen \/ P_Dump \/ P_Close
    \/ P_StatusOpen \/ P_StatusDump \/ P_StatusClose

(***************************************************************************)
(* The Analyze stage: analyze.py main()                                    *)
(***************************************************************************)
\* " ".join(texts)
RECURSIVE JoinFrom(_, _)
JoinFrom(texts, k) ==
    IF k > Len(texts) THEN <<>>
    ELSE IF k = Len(texts) THEN texts[k]
    ELSE texts[k] \o <<" ">> \o JoinFrom(texts, k + 1)

all_texts_of(docs) == JoinFrom([k \in DOMAIN docs |-> docs[k].text], 1)

\* lines 60-70
top_100_words_of(words) ==
    LET total_words_count == Len(words)
        lower_words == [k \in DOMAIN words |-> Lower(words[k])]
        common == most_common(Counter(lower_words), 100)
    IN  [k \in DOMAIN common |->
            [ word      |-> common[k][1],
              count     |-> common[k][2],
              frequency |-> Div(common[k][2], total_words_count) ]]

\* the loop with j over range(n): every pair of distinct indices, both ways
RECURSIVE PairsBothWays(_, _, _)
PairsBothWays(a, b, n) ==
    IF a >= n THEN <<>>
    ELSE IF b >= n THEN PairsBothWays(a + 1, 0, n)
    ELSE (IF a = b THEN <<>> ELSE <<<<a, b>>>>) \o PairsBothWays(a, b + 1, n)

\* range(i + 1, n) for i in range(n): the index pairs in loop order
RECURSIVE PairsFrom(_, _, _)
PairsFrom(a, b, n) ==
    IF a >= n THEN <<>>
    ELSE IF b >= n THEN PairsFrom(a + 1, a + 2, n)
    ELSE <<<<a, b>>>> \o PairsFrom(a, b + 1, n)

\* lines 75-89; Python indexes the list from 0
document_similarity_of(docs) ==
    LET pairs == PairsFrom(0, 1, Len(docs))
    IN  [k \in DOMAIN pairs |->
            [ doc1       |-> PageJson(pairs[k][1]),
              doc2       |-> PageJson(pairs[k][2]),
              similarity |-> jaccard_similarity(docs[pairs[k][1] + 1].text,
                                                docs[pairs[k][2] + 1].text) ]]

\* lines 93-101: zip(words, words[1:])
top_bigrams_of(words) ==
    LET bigrams == IF Len(words) < 2 THEN <<>>
                   ELSE [k \in 1..(Len(words) - 1) |-> <<words[k], words[k + 1]>>]
        common == most_common(Counter(bigrams), 100)
    IN  [k \in DOMAIN common |-> [word |-> common[k][1], count |-> common[k][2]]]

\* the ratios without their guards against a zero denominator
readability_unguarded(all_texts, words) ==
    LET avg_word_length == Div(total_length(words), Len(words))
        avg_words_per_sentence == Div(Len(words), count_sentences(all_texts))
    IN  [ avg_sentence_length |-> avg_word_length,
          avg_word_length     |-> avg_words_per_sentence,
          complexity_score    |-> Mul(avg_word_length, avg_words_per_sentence) ]

\* lines 105-129
readability_of(all_texts, words) ==
    LET total_words_count == Len(words)
        avg_word_length == IF total_words_count > 0
                           THEN Div(total_length(words), total_words_count)
                           ELSE Zero
        total_sentences == count_sentences(all_texts)
        avg_words_per_sentence == IF total_sentences > 0
                                  THEN Div(total_words_count, total_sentences)
                                  ELSE Zero
        complexity_score == Mul(avg_word_length, avg_words_per_sentence)
    IN  [ avg_sentence_length |-> avg_word_length,
          avg_word_length     |-> avg_words_per_sentence,
          complexity_score    |-> complexity_score ]

\* lines 55-129: the object written to final_report.json
final_report_of(docs) ==
    LET all_texts == all_texts_of(docs)
        words == findall_words(all_texts)
    IN  [ documents_processed |-> Len(docs),
          total_words         |-> Len(words),
          unique_words        |-> Cardinality(Range(words)),
          top_100_words       |-> top_100_words_of(words),
          document_similarity |-> document_similarity_of(docs),
          top_bigrams         |-> top_bigrams_of(words),
          readability         |-> readability_of(all_texts, words) ]

\* some division in the computation of the report raised
ReportRaised(r) ==
    \/ \E k \in DOMAIN r.top_100_words : Raised(r.top_100_words[k].frequency)
    \/ \E k \in DOMAIN r.document_similarity : Raised(r.document_similarity[k].similarity)
    \/ Raised(r.readability.avg_sentence_length)
    \/ Raised(r.readability.avg_word_length)
    \/ Raised(r.readability.complexity_score)

\* the orders in which glob may list the set S of files
Listings(S) ==
    { f \in [1..Cardinality(S) -> S] : \A a, b \in DOMAIN f : a # b => f[a] # f[b] }

\* line 42: the gate on the process marker
A_Wait ==
    /\ apc = "wait"
    /\ LET w == wait_for_complete_file(process_complete, aelapsed)
       IN  \/ /\ w = "return"
              /\ apc' = "glob"
              /\ UNCHANGED aelapsed
           \/ /\ w = "sleep"
              /\ aelapsed' \in Slept(aelapsed)
              /\ UNCHANGED apc
           \/ /\ w = "raise"
              /\ apc' = "timed_out"
              /\ UNCHANGED aelapsed
    /\ UNCHANGED <<xvars, raw, timeout, interval, fetch_complete, files, pvars,
                   listing, all_processed_files>>

\* lines 44-49: glob lists the artifacts there are, in no particular order
A_Glob ==
    /\ apc = "glob"
    /\ listing' \in Listings({n \in DOMAIN processed : Exists(processed[n])})
    /\ apc' = "load"
    /\ UNCHANGED <<xvars, raw, timeout, interval, fetch_complete, files, pvars,
                   aelapsed, all_processed_files>>

\* lines 49-52: one pass of the loading loop; json.load raises on a file
\* that holds no complete JSON text
A_Load ==
    /\ apc = "load"
    /\ Len(all_processed_files) < Len(listing)
    /\ LET file == processed[listing[Len(all_processed_files) + 1]]
       IN  IF Loadable(file)
           THEN /\ all_processed_files' = Append(all_processed_files, file.data[1])
                /\ UNCHANGED apc
           ELSE /\ apc' = "crashed"
                /\ UNCHANGED all_processed_files
    /\ UNCHANGED <<xvars, raw, timeout, interval, fetch_complete, files, pvars,
                   aelapsed, listing>>

\* lines 55-131: the report is computed and final_report.json opened
A_ReportOpen ==
    /\ apc = "load"
    /\ Len(all_processed_files) = Len(listing)
    /\ LET r == final_report_of(all_processed_files)
       IN  IF ReportRaised(r)
           THEN /\ apc' = "crashed"
                /\ UNCHANGED final_report
           ELSE /\ apc' = "dump"
                /\ final_report' = OpenedForWrite(r)
    /\ UNCHANGED <<xvars, raw, timeout, interval, fetch_complete, processed,
                   process_complete, pvars, aelapsed, listing, all_processed_files>>

\* line 132
A_Dump ==
    /\ apc = "dump"
    /\ final_report' \in Dumped(final_report)
    /\ apc' = "close"
    /\ UNCHANGED <<xvars, raw, timeout, interval, fetch_complete, processed,
                   process_complete, pvars, aelapsed, listing, all_processed_files>>

\* lines 131-132: the with block ends
A_Close ==
    /\ apc = "close"
    /\ final_report' = Closed(final_report)
    /\ apc' = "done"
    /\ UNCHANGED <<xvars, raw, timeout, interval, fetch_complete, processed,
                   process_complete, pvars, aelapsed, listing, all_processed_files>>

Analyze == A_Wait \/ A_Glob \/ A_Load \/ A_ReportOpen \/ A_Dump \/ A_Close

(***************************************************************************)
(* arxiv_processor.py main(), lines 50-104: the query of the ArXiv API.    *)
(* A response is what urlopen and response.read() gave for one request:    *)
(* a body (0 stands for a body that is not well-formed XML), an HTTPError  *)
(* with its code, or any other exception (URLError, a timeout, a short     *)
(* read).                                                                  *)
(***************************************************************************)
max_retries == 3

Bodies == 0..MaxBodies

HttpErrorCodes == {404, 429, 503}

Responses ==
    [kind : {"ok"}, body : Bodies]
        \cup [kind : {"http"}, code : HttpErrorCodes]
        \cup {[kind |-> "error"]}

RateLimited(r) == r.kind = "http" /\ r.code = 429

\* lines 50-66: the start entry of the log, and the loop is entered
X_Start ==
    /\ xpc = "start"
    /\ log' = Append(log, "Starting ArXiv query")
    /\ attempt' = 0
    /\ xpc' = "request"
    /\ UNCHANGED <<pipeline, responses, data, root>>

\* lines 67-86: one pass of the loop body.  After a request that succeeded
\* the for statement goes on to the next value of attempt.
X_Request ==
    /\ xpc = "request"
    /\ attempt < max_retries
    /\ \E r \in Responses :
        /\ responses' = Append(responses, r)
        /\ \/ /\ r.kind = "ok"
              /\ data' = <<r.body>>
              /\ attempt' = attempt + 1
              /\ UNCHANGED <<xpc, log>>
           \/ /\ RateLimited(r)
              /\ attempt < max_retries - 1
              /\ xpc' = "sleep"
              /\ UNCHANGED <<attempt, data, log>>
           \/ /\ r.kind = "http"
              /\ ~(RateLimited(r) /\ attempt < max_retries - 1)
              /\ log' = Append(log, "HTTPError")
              /\ xpc' = "exit_1"
              /\ UNCHANGED <<attempt, data>>
           \/ /\ r.kind = "error"
              /\ log' = Append(log, "Network error")
              /\ xpc' = "exit_1"
              /\ UNCHANGED <<attempt, data>>
    /\ UNCHANGED <<pipeline, root>>

\* line 74: time.sleep(3) returns and the loop takes its next value
X_Sleep ==
    /\ xpc = "sleep"
    /\ attempt' = attempt + 1
    /\ xpc' = "request"
    /\ UNCHANGED <<pipeline, responses, data, root, log>>

\* lines 67 and 88-91: range(max_retries) is exhausted
X_Fetched ==
    /\ xpc = "request"
    /\ attempt = max_retries
    /\ log' = Append(log, "Fetched")
    /\ xpc' = "parse"
    /\ UNCHANGED <<pipeline, attempt, responses, data, root>>

\* lines 95-104: ET.fromstring(data); on a ParseError an empty root
X_Parse ==
    /\ xpc = "parse"
    /\ IF data[1] = 0
       THEN /\ log' = Append(log, "Invalid XML")
            /\ root' = <<"root">>
       ELSE /\ root' = <<"feed", data[1]>>
            /\ UNCHANGED log
    /\ xpc' = "parsed"
    /\ UNCHANGED <<pipeline, attempt, responses, data>>

ArxivProcessor == X_Start \/ X_Request \/ X_Sleep \/ X_Fetched \/ X_Parse

\* arxiv_processor.py is not running
ArxivIdle ==
    /\ xpc = "idle" /\ attempt = 0 /\ responses = <<>>
    /\ data = <<>> /\ root = <<>> /\ log = <<>>

(***************************************************************************)
(* The fetch stage, outside this pipeline: it publishes its marker at any  *)
(* time, or never.                                                         *)
(***************************************************************************)
FetchCompletes ==
    /\ ~Exists(fetch_complete)
    /\ fetch_complete' = [disk |-> "complete", data |-> <<>>]
    /\ UNCHANGED <<xvars, raw, timeout, interval, files, pvars, avars>>

InitFiles ==
    /\ fetch_complete = NoFile
    /\ processed = [n \in 1..Len(raw) |-> NoFile]
    /\ process_complete = NoFile
    /\ final_report = NoFile
    /\ ppc = "wait" /\ pelapsed = 0 /\ html_file = 0 /\ results = <<>> /\ i = 0
    /\ apc = "wait" /\ aelapsed = 0 /\ listing = <<>> /\ all_processed_files = <<>>

\* the pipeline with the gate's arguments fixed
Init ==
    /\ raw \in Corpora
    /\ timeout = Timeout
    /\ interval = Interval
    /\ InitFiles
    /\ ArxivIdle

Next == Process \/ Analyze \/ FetchCompletes

Spec == Init /\ [][Next]_vars

\* the gate for a range of arguments; a stage that is in its wait loop is a
\* running process, it goes on to the next pass of the loop
GateInit ==
    /\ raw \in GateCorpora
    /\ timeout \in 0..MaxTimeout
    /\ interval \in 1..MaxInterval
    /\ InitFiles
    /\ ArxivIdle

GateSpec == GateInit /\ [][Next]_vars /\ WF_vars(P_Wait) /\ WF_vars(A_Wait)

\* arxiv_processor.py alone, the pipeline's stages not running
ArxivInit ==
    /\ raw = <<>>
    /\ timeout = Timeout
    /\ interval = Interval
    /\ InitFiles
    /\ xpc = "start" /\ attempt = 0 /\ responses = <<>>
    /\ data = <<>> /\ root = <<>> /\ log = <<>>

ArxivSpec == ArxivInit /\ [][ArxivProcessor]_vars

\* what the Analyze stage may find at /shared/processed/page_<n>.json when
\* it is run on a directory it did not see being written: nothing, an
\* artifact, or a file that open() or json.load() raises on
DirEntries(n) ==
    {NoFile}
        \cup { [disk |-> d, data |-> <<processed_file(n, doc.html)>>] :
                   d \in {"complete", "empty", "partial", "unreadable"},
                   doc \in TinyDocs }

\* the Analyze stage alone, on the directory as it finds it, the marker of
\* the Process stage there already or never to come
AnalyzeInit ==
    /\ raw = <<>>
    /\ timeout = Timeout
    /\ interval = Interval
    /\ fetch_complete = NoFile
    /\ \E m \in 0..MaxDocs :
           processed \in { f \in [1..m -> UNION {DirEntries(n) : n \in 1..m}] :
                              \A n \in 1..m : f[n] \in DirEntries(n) }
    /\ process_complete \in {NoFile, [disk |-> "complete", data |-> <<>>]}
    /\ final_report = NoFile
    /\ ppc = "done" /\ pelapsed = 0 /\ html_file = 0 /\ results = <<>> /\ i = 0
    /\ apc = "wait" /\ aelapsed = 0 /\ listing = <<>> /\ all_processed_files = <<>>
    /\ ArxivIdle

AnalyzeSpec == AnalyzeInit /\ [][Analyze]_vars

(***************************************************************************)
(* What the claims speak of                                                *)
(***************************************************************************)
\* the raw documents that load
LoadableDocs == {k \in DOMAIN raw : raw[k].fault = "none"}

\* the artifacts at their final path
Artifacts == {n \in DOMAIN processed : Exists(processed[n])}

\* the report object, once final_report.json has been opened
Report == final_report.data[1]

ReportOpened == final_report.data # <<>>

\* the word tokens of the loaded documents, document by document
RECURSIVE TokensOfDocs(_, _)
TokensOfDocs(docs, k) ==
    IF k > Len(docs) THEN <<>>
    ELSE findall_words(docs[k].text) \o TokensOfDocs(docs, k + 1)

CorpusTokens == TokensOfDocs(all_processed_files, 1)

CorpusLowerTokens ==
    LET tokens == CorpusTokens
    IN  [k \in DOMAIN tokens |-> Lower(tokens[k])]

FirstIndex(xs, x) == First({k \in DOMAIN xs : xs[k] = x})

Min(a, b) == IF a <= b THEN a ELSE b

(***************************************************************************)
(* C1: in every interleaving of one Process run and one Analyze run, the   *)
(* Analyze stage is past its gate only when process_complete.json exists;  *)
(* once the marker exists every artifact of the run (one per raw document  *)
(* that loads) is at its path, complete and closed, and the Process stage  *)
(* writes no artifact any more; so what the Analyze stage lists and loads  *)
(* is the whole set, and loading never fails.                              *)
(***************************************************************************)
C1_MarkerInv ==
    /\ apc \notin {"wait", "timed_out"} => Exists(process_complete)
    /\ Exists(process_complete) =>
          /\ \A n \in DOMAIN processed : processed[n].disk \in {"absent", "complete"}
          /\ Artifacts = 1..Cardinality(LoadableDocs)
    /\ apc \in {"load", "dump", "close", "done"} =>
          /\ Range(listing) = 1..Cardinality(LoadableDocs)
          /\ \A k \in DOMAIN all_processed_files :
                all_processed_files[k] = processed[listing[k]].data[1]
    /\ apc # "crashed"

C1_MarkerIsLastWrite ==
    /\ []C1_MarkerInv
    /\ [][Exists(process_complete) => processed' = processed]_vars
    /\ [][all_processed_files' # all_processed_files => Exists(process_complete)]_vars

\* the Analyze stage started waiting before the marker was there and has
\* loaded a full set of two artifacts
C1_Witness ==
    /\ aelapsed > 0
    /\ apc = "done"
    /\ Len(all_processed_files) = 2

(***************************************************************************)
(* C2: wait_for_complete_file terminates for every timeout >= 0 and        *)
(* interval >= 1: each stage leaves its wait; it is past the gate only if  *)
(* the marker exists; while the marker stays absent the stage ends timed   *)
(* out; and a stage that timed out stays timed out, it never runs.         *)
(***************************************************************************)
C2_WaitTerminates ==
    /\ <>(ppc # "wait")
    /\ <>(apc # "wait")
    /\ [](ppc \notin {"wait", "timed_out"} => Exists(fetch_complete))
    /\ [](apc \notin {"wait", "timed_out"} => Exists(process_complete))
    /\ <>(Exists(fetch_complete) \/ ppc = "timed_out")
    /\ <>(Exists(process_complete) \/ apc = "timed_out")
    /\ [][ppc = "timed_out" => ppc' = "timed_out"]_vars
    /\ [][apc = "timed_out" => apc' = "timed_out"]_vars

\* the Process stage polled, slept and then timed out on a positive timeout
C2_Witness ==
    /\ timeout > 0
    /\ ppc = "timed_out"
    /\ pelapsed >= timeout
    /\ ~Exists(fetch_complete)

(***************************************************************************)
(* C3: every similarity of the report is the Jaccard similarity of the two *)
(* documents' sets of distinct word tokens (0 when both sets are empty).   *)
(***************************************************************************)
TokenJaccard(text1, text2) ==
    LET set1 == Range(findall_words(text1))
        set2 == Range(findall_words(text2))
    IN  IF set1 \cup set2 = {} THEN Zero
        ELSE <<Cardinality(set1 \cap set2), Cardinality(set1 \cup set2)>>

C3_SimilarityIsTokenJaccard ==
    ReportOpened =>
        \A k \in DOMAIN Report.document_similarity :
            LET rec == Report.document_similarity[k]
            IN  RatEq(rec.similarity,
                      TokenJaccard(all_processed_files[rec.doc1[2] + 1].text,
                                   all_processed_files[rec.doc2[2] + 1].text))

(***************************************************************************)
(* C4: no JSON artifact (page_<n>.json, process_complete.json,             *)
(* final_report.json) is ever at its final path empty or partly written.   *)
(***************************************************************************)
C4_AtomicPublish ==
    /\ \A n \in DOMAIN processed : processed[n].disk \in {"absent", "complete"}
    /\ process_complete.disk \in {"absent", "complete"}
    /\ final_report.disk \in {"absent", "complete"}

(***************************************************************************)
(* C5: the bigram counts of the report are the merged counts of the pairs  *)
(* of consecutive tokens inside each document's own lower-cased token      *)
(* sequence.                                                               *)
(***************************************************************************)
RECURSIVE BigramsOfDocs(_, _)
BigramsOfDocs(docs, k) ==
    IF k > Len(docs) THEN <<>>
    ELSE LET ws == findall_words(docs[k].text)
         IN  (IF Len(ws) < 2 THEN <<>>
              ELSE [j \in 1..(Len(ws) - 1) |-> <<Lower(ws[j]), Lower(ws[j + 1])>>])
             \o BigramsOfDocs(docs, k + 1)

C5_BigramsPerDocument ==
    ReportOpened =>
        LET merged == BigramsOfDocs(all_processed_files, 1)
        IN  /\ Len(Report.top_bigrams) = Min(100, Cardinality(Range(merged)))
            /\ \A k \in DOMAIN Report.top_bigrams :
                  LET e == Report.top_bigrams[k]
                  IN  /\ e.word \in Range(merged)
                      /\ e.count = Occurrences(merged, e.word)

(***************************************************************************)
(* C6: when the Process stage is done, every raw document has exactly one  *)
(* outcome, "failed" if it fails to load (on open or on read) and          *)
(* "success" otherwise; there is one artifact per document that loads and  *)
(* none for the others; the marker is written and its successful/failed    *)
(* counts are the numbers of documents that load and that fail.            *)
(***************************************************************************)
C6_OneOutcomePerDocument ==
    /\ ppc # "crashed"
    /\ ppc = "done" =>
          LET st == process_complete.data[1]
          IN  /\ \A k \in DOMAIN raw :
                    /\ Cardinality({j \in DOMAIN st.results : st.results[j].file = k}) = 1
                    /\ \A j \in DOMAIN st.results :
                          st.results[j].file = k =>
                             st.results[j].status =
                                IF raw[k].fault = "none" THEN "success" ELSE "failed"
              /\ Artifacts = 1..Cardinality(LoadableDocs)
              /\ process_complete.disk = "complete"
              /\ st.successful = Cardinality(LoadableDocs)
              /\ st.failed = Len(raw) - Cardinality(LoadableDocs)

(***************************************************************************)
(* C7: in the report, readability.avg_word_length is (sum of token         *)
(* lengths) / total_words, readability.avg_sentence_length is              *)
(* total_words / total_sentences (0 without sentences), and                *)
(* complexity_score is their product.                                      *)
(***************************************************************************)
C7_ReadabilityFields ==
    ReportOpened =>
        LET total_words == Len(CorpusTokens)
            total_sentences == count_sentences(all_texts_of(all_processed_files))
            word_length == IF total_words = 0 THEN Zero
                           ELSE <<total_length(CorpusTokens), total_words>>
            sentence_length == IF total_sentences = 0 THEN Zero
                               ELSE <<total_words, total_sentences>>
        IN  /\ RatEq(Report.readability.avg_word_length, word_length)
            /\ RatEq(Report.readability.avg_sentence_length, sentence_length)
            /\ RatEq(Report.readability.complexity_score,
                     Mul(word_length, sentence_length))

(***************************************************************************)
(* C8: on a degenerate corpus the Analyze stage raises no division fault   *)
(* and writes the report: documents_processed is the number of documents;  *)
(* without words top_100_words and top_bigrams are empty and the three     *)
(* ratios are 0; with fewer than two documents document_similarity is      *)
(* empty.                                                                  *)
(***************************************************************************)
C8_DegenerateCorpus ==
    /\ apc # "crashed"
    /\ apc \in {"dump", "close", "done"} => ReportOpened
    /\ apc = "done" => final_report.disk = "complete"
    /\ ReportOpened =>
          /\ Report.documents_processed = Len(all_processed_files)
          /\ Len(all_processed_files) < 2 => Report.document_similarity = <<>>
          /\ CorpusTokens = <<>> =>
                /\ Report.top_100_words = <<>>
                /\ Report.top_bigrams = <<>>
                /\ Report.readability.avg_word_length = Zero
                /\ Report.readability.avg_sentence_length = Zero
                /\ RatEq(Report.readability.complexity_score, Zero)
                /\ ~Raised(Report.readability.complexity_score)

\* a finished run over two documents without a word, one without a sentence
C8_Witness ==
    /\ apc = "done"
    /\ final_report.disk = "complete"
    /\ Len(all_processed_files) = 2
    /\ CorpusTokens = <<>>
    /\ \E k \in DOMAIN all_processed_files :
          count_sentences(all_processed_files[k].text) = 0

(***************************************************************************)
(* C9: a stage whose wait ran out of time publishes nothing: once the      *)
(* Process stage's clock has reached the timeout in its wait, or it has    *)
(* timed out, there is no page_<n>.json and no process_complete.json;      *)
(* likewise the Analyze stage and final_report.json.                       *)
(***************************************************************************)
C9_TimeoutPublishesNothing ==
    /\ (ppc = "timed_out" \/ pelapsed >= timeout) =>
          /\ ppc \in {"wait", "timed_out"}
          /\ Artifacts = {}
          /\ ~Exists(process_complete)
    /\ (apc = "timed_out" \/ aelapsed >= timeout) =>
          /\ apc \in {"wait", "timed_out"}
          /\ ~Exists(final_report)

\* both stages timed out, the Analyze one although the fetch marker came
C9_Witness ==
    /\ ppc = "timed_out"
    /\ apc = "timed_out"
    /\ Exists(fetch_complete)

(***************************************************************************)
(* C10: top_100_words has min(100, number of distinct lower-cased tokens)  *)
(* entries, of distinct words; each count is the number of occurrences of  *)
(* the lower-cased token in the corpus, each frequency is                  *)
(* count / total_words; the entries are in order of non-increasing count,  *)
(* equal counts in order of first occurrence; and a word left out has no   *)
(* higher count than a word listed, nor the same count and an earlier      *)
(* first occurrence.                                                       *)
(***************************************************************************)
C10_TopWords ==
    ReportOpened =>
        LET lw == CorpusLowerTokens
            vocabulary == Range(lw)
            top == Report.top_100_words
            listed == {top[k].word : k \in DOMAIN top}
            rank == [w \in vocabulary |-> <<Occurrences(lw, w), FirstIndex(lw, w)>>]
            Before(x, y) == x[1] > y[1] \/ (x[1] = y[1] /\ x[2] < y[2])
        IN  /\ Report.total_words = Len(lw)
            /\ Len(top) = Min(100, Cardinality(vocabulary))
            /\ \A k \in DOMAIN top :
                  /\ top[k].word \in vocabulary
                  /\ top[k].count = rank[top[k].word][1]
                  /\ ~Raised(top[k].frequency)
                  /\ RatEq(top[k].frequency, <<top[k].count, Len(lw)>>)
            /\ \A k \in 1..(Len(top) - 1) : Before(rank[top[k].word], rank[top[k + 1].word])
            /\ Len(top) > 0 =>
                  \A w \in vocabulary \ listed : Before(rank[top[Len(top)].word], rank[w])

\* a report over more than 100 distinct words, the most frequent of which
\* occurs last in the corpus
C10_Witness ==
    /\ apc = "done"
    /\ Cardinality(Range(CorpusLowerTokens)) > 100
    /\ Len(Report.top_100_words) = 100
    /\ Report.top_100_words[1].count = 2
    /\ Report.top_100_words[2].count = 1

(***************************************************************************)
(* C11: for n loaded documents the report's document_similarity list holds *)
(* n*(n-1)/2 records, one for every pair of load positions i < j and none  *)
(* for a pair i = i or for a pair a second time, in the order of i, then   *)
(* of j.  The labels carry the load positions, counted from 0.             *)
(***************************************************************************)
C11_SimilarityPairs ==
    ReportOpened =>
        LET n == Len(all_processed_files)
            sim == Report.document_similarity
            I(k) == sim[k].doc1[2]
            J(k) == sim[k].doc2[2]
        IN  /\ 2 * Len(sim) = n * (n - 1)
            /\ \A k \in DOMAIN sim :
                    /\ sim[k].doc1 = PageJson(I(k))
                    /\ sim[k].doc2 = PageJson(J(k))
                    /\ I(k) \in 0..(n - 1)
                    /\ J(k) \in 0..(n - 1)
                    /\ I(k) < J(k)
            /\ \A a, b \in 0..(n - 1) :
                    a < b => Cardinality({k \in DOMAIN sim : I(k) = a /\ J(k) = b}) = 1
            /\ \A k, l \in DOMAIN sim :
                    k < l => \/ I(k) < I(l)
                             \/ I(k) = I(l) /\ J(k) < J(l)

\* a report over three or more documents: several pairs share their i
C11_Witness ==
    /\ ReportOpened
    /\ Len(all_processed_files) >= 3
    /\ Len(Report.document_similarity) >= 3

(***************************************************************************)
(* C12: every doc1 and doc2 label of a similarity record is the file name  *)
(* of an artifact that the Process stage wrote, and the record's           *)
(* similarity is the one computed from the texts stored in the two         *)
(* artifacts that carry those names.                                       *)
(***************************************************************************)
C12_LabelsNameArtifacts ==
    ReportOpened =>
        \A k \in DOMAIN Report.document_similarity :
            LET record == Report.document_similarity[k]
            IN  \E n, m \in Artifacts :
                    /\ record.doc1 = PageJson(n)
                    /\ record.doc2 = PageJson(m)
                    /\ RatEq(record.similarity,
                             jaccard_similarity(processed[n].data[1].text,
                                                processed[m].data[1].text))

(***************************************************************************)
(* C13: in the retry loop of the ArXiv query a request is sent only after  *)
(* the one before it returned HTTP 429, and at most 3 are sent.  The       *)
(* response of the request that succeeded is the one parsed; an HTTP       *)
(* error other than 429, any other error, and a third 429 end the run      *)
(* with exit status 1.                                                     *)
(***************************************************************************)
C13_RequestOnlyAfter429 ==
    LET sent == Len(responses)
    IN  /\ sent <= 3
        /\ \A k \in 2..sent : RateLimited(responses[k - 1])
        /\ xpc \in {"parse", "parsed"} =>
               /\ responses[sent].kind = "ok"
               /\ data = <<responses[sent].body>>
        /\ xpc = "parsed" =>
               root = IF data[1] = 0 THEN <<"root">> ELSE <<"feed", data[1]>>
        /\ (sent > 0 /\ responses[sent].kind # "ok"
                     /\ ~(RateLimited(responses[sent]) /\ sent < 3))
               => xpc = "exit_1"

(***************************************************************************)
(* C14: the Analyze stage opens final_report.json only after it has loaded *)
(* every artifact that is in the processed directory, and writes it once:  *)
(* the report's documents_processed is the number of artifacts there, the  *)
(* loaded objects are those of the listed files, and when some artifact    *)
(* cannot be opened or is not a complete JSON text the run ends without a  *)
(* report, no file being skipped.                                          *)
(***************************************************************************)
Unloadable == {n \in Artifacts : processed[n].disk # "complete"}

C14_Inv ==
    /\ ReportOpened =>
           /\ Unloadable = {}
           /\ Range(listing) = Artifacts
           /\ Len(listing) = Cardinality(Artifacts)
           /\ Len(all_processed_files) = Len(listing)
           /\ \A k \in DOMAIN listing :
                  all_processed_files[k] = processed[listing[k]].data[1]
           /\ Report.documents_processed = Cardinality(Artifacts)
    /\ Unloadable # {} =>
           /\ final_report = NoFile
           /\ apc \in {"wait", "timed_out", "glob", "load", "crashed"}

C14_ReportAfterFullLoad ==
    /\ []C14_Inv
    /\ [][ReportOpened => ReportOpened' /\ Report' = Report]_vars
    /\ [][final_report.disk = "complete" => final_report' = final_report]_vars

\* the run stopped at a file it could not load, after it had loaded another
C14_Witness ==
    /\ apc = "crashed"
    /\ Unloadable # {}
    /\ all_processed_files # <<>>
    /\ final_report = NoFile

====
